---- MODULE Spec2Model ----
(***************************************************************************)
(* Model of src/app.py (morreene/hssearch): the text-normalisation         *)
(* pipeline text_preprocessing, the module-level stop-word overrides and   *)
(* the search callback display_table.                                      *)
(*                                                                         *)
(* A Python str is a sequence of atoms.  An atom stands for one character  *)
(* (" ", "TAB" for a tab, "!", "$") or for an indivisible run of           *)
(* characters ("<b>", "computer", "s", "Don't", "Caf^e" for the word with  *)
(* an accented e): "computers" is <<"computer", "s">>, so that a token can *)
(* be a proper part of a longer token.                                     *)
(***************************************************************************)
EXTENDS Integers, Sequences, FiniteSets, TLC

VARIABLES pc, stop, data, caller, opts, raw, text, stages, doc, i,
          clean_text, result, prev, dff,
          pathname, pending, active, page_content, is_open, toggles

\* The state of the page in the browser: the url, the callbacks it has
\* triggered that have not run yet, the properties they write, and the
\* number of toggle_collapse callbacks that came with a positive n_clicks.
uivars == <<pathname, pending, active, page_content, is_open, toggles>>

vars == <<pc, stop, data, caller, opts, raw, text, stages, doc, i,
          clean_text, result, prev, dff, uivars>>

\* Longest input text (in atoms) the callers pass to text_preprocessing.
MaxLen == 2
\* Longest input of the cleaning stages, and longest whitespace-only input.
MaxClean == 3
MaxWs == 3
\* Longest search string typed into input-search.
MaxQuery == 3
\* Most tokens in a row's Text_Proc1, and most rows in the table.
MaxRowTokens == 3
MaxRows == 1
\* Most toggle_collapse callbacks with a positive n_clicks, and the largest
\* n_clicks a callback comes with.
MaxToggles == 3
MaxClicks == 2

\* Python's None: as a record where the other values are records, as a
\* string where they are strings (a url, the name of a page).
NoValue == [k |-> "none"]
None == "None"

----------------------------------------------------------------------------
\* Strings

\* A Python value held by edit: a str or an int.
StrVal(s) == [k |-> "str", v |-> s]
IntVal(n) == [k |-> "int", v |-> n]

Whitespace == {" ", "TAB"}
Tags == {"<b>"}
Punct == {"!"}
Sym == {"$"}

IsSpace(a) == a \in Whitespace
IsWordAtom(a) == a \notin Whitespace \cup Tags \cup Punct \cup Sym

RECURSIVE Concat(_)
Concat(ss) == IF ss = <<>> THEN <<>> ELSE Head(ss) \o Concat(Tail(ss))

\* sep.join(parts)
RECURSIVE JoinWith(_, _)
JoinWith(parts, sep) ==
  IF parts = <<>> THEN <<>>
  ELSE IF Len(parts) = 1 THEN parts[1]
  ELSE parts[1] \o sep \o JoinWith(Tail(parts), sep)

\* The maximal non-empty runs of s between atoms of seps, in order.
RECURSIVE Chunks(_, _, _)
Chunks(s, seps, cur) ==
  IF s = <<>> THEN (IF cur = <<>> THEN <<>> ELSE <<cur>>)
  ELSE IF Head(s) \in seps
       THEN (IF cur = <<>> THEN <<>> ELSE <<cur>>) \o Chunks(Tail(s), seps, <<>>)
       ELSE Chunks(Tail(s), seps, Append(cur, Head(s)))

\* pat in s
Contains(pat, s) ==
  \E k \in 1..(Len(s) + 1) :
     /\ k + Len(pat) - 1 <= Len(s)
     /\ SubSeq(s, k, k + Len(pat) - 1) = pat

\* All strings over an alphabet of length at most n.
RECURSIVE Texts(_, _)
Texts(alphabet, n) ==
  IF n = 0 THEN {<<>>}
  ELSE LET shorter == Texts(alphabet, n - 1)
       IN shorter \cup {Append(t, a) : t \in {u \in shorter : Len(u) = n - 1}, a \in alphabet}

----------------------------------------------------------------------------
\* Cleaning stages

\* BeautifulSoup(text).get_text(separator=" "): the text nodes between tags,
\* joined by one space.
strip_html_tags(t) == JoinWith(Chunks(t, Tags, <<>>), <<" ">>)

\* " ".join(text.strip().split())
remove_whitespace(t) == JoinWith(Chunks(t, Whitespace, <<>>), <<" ">>)

UnidecodeAtom(a) ==
  CASE a = "Caf^e" -> "Cafe"
    [] a = "caf^e" -> "cafe"
    [] OTHER -> a

\* unidecode.unidecode(text)
remove_accented_chars(t) == [k \in 1..Len(t) |-> UnidecodeAtom(t[k])]

ContractionOf(a) ==
  CASE a = "Don't" -> <<"Do", " ", "not">>
    [] a = "don't" -> <<"do", " ", "not">>
    [] OTHER -> <<a>>

\* contractions.fix(text): a contraction is expanded where it stands as a word.
expand_contractions(t) ==
  Concat([k \in 1..Len(t) |->
            IF /\ (k = 1 \/ ~IsWordAtom(t[k - 1]))
               /\ (k = Len(t) \/ ~IsWordAtom(t[k + 1]))
            THEN ContractionOf(t[k]) ELSE <<t[k]>>])

LowerAtom(a) ==
  CASE a = "Caf^e" -> "caf^e"
    [] a = "Cafe" -> "cafe"
    [] a = "Don't" -> "don't"
    [] a = "Do" -> "do"
    [] a = "Use" -> "use"
    [] a = "Not" -> "not"
    [] OTHER -> a

\* text.lower()
lower(t) == [k \in 1..Len(t) |-> LowerAtom(t[k])]

----------------------------------------------------------------------------
\* The annotator: nlp = spacy.load('en_core_web_sm')

\* The entries of nlp.vocab flagged is_stop after spacy.load, as far as the
\* atoms of the model go.  The flag of an entry is set from its lowercased
\* text, so "Do" and "Not" are flagged like "do" and "not".
DefaultStopWords == {"do", "it", "one", "no", "not", "least", "Do", "Not"}

\* The list without "not".
deselect_stop_words_Short == <<"no", "least">>

\* Line 37
deselect_stop_words == <<"no", "not", "least">>

\* Prefix/suffix rules: a punctuation or symbol atom is a token of its own,
\* the word atoms between them stay together.
RECURSIVE SplitAffixes(_, _)
SplitAffixes(span, cur) ==
  IF span = <<>> THEN (IF cur = <<>> THEN <<>> ELSE <<cur>>)
  ELSE IF Head(span) \in Punct \cup Sym
       THEN (IF cur = <<>> THEN <<>> ELSE <<cur>>) \o <<<<Head(span)>>>>
            \o SplitAffixes(Tail(span), <<>>)
       ELSE SplitAffixes(Tail(span), Append(cur, Head(span)))

Emit(span, in_ws) == IF in_ws THEN <<span>> ELSE SplitAffixes(span, <<>>)

\* The tokenizer's scan: a run of whitespace after a word gives up one " " to
\* the word before it, the rest of the run is a token of its own.
RECURSIVE TokLoop(_, _, _, _, _)
TokLoop(s, k, start, in_ws, acc) ==
  IF k > Len(s)
  THEN (IF start < k THEN acc \o Emit(SubSeq(s, start, k - 1), in_ws) ELSE acc)
  ELSE IF IsSpace(s[k]) # in_ws
       THEN TokLoop(s, k + 1, IF s[k] = " " THEN k + 1 ELSE k, ~in_ws,
                    IF start < k THEN acc \o Emit(SubSeq(s, start, k - 1), in_ws)
                                 ELSE acc)
       ELSE TokLoop(s, k + 1, start, in_ws, acc)

Tokenize(s) == IF s = <<>> THEN <<>> ELSE TokLoop(s, 1, 1, IsSpace(s[1]), <<>>)

like_num(t) ==
  \/ t \in {<<"five">>, <<"one">>, <<"3.5">>}
  \/ t # <<>> /\ \A k \in 1..Len(t) : t[k] = "5"

\* token.pos_; "0101" stands for a digit string the tagger does not tag NUM.
pos_(t) ==
  CASE \A k \in 1..Len(t) : IsSpace(t[k]) -> "SPACE"
    [] t = <<"!">> -> "PUNCT"
    [] t = <<"$">> -> "SYM"
    [] like_num(t) -> "NUM"
    [] t = <<"it">> -> "PRON"
    [] t = <<"do">> -> "AUX"
    [] OTHER -> "NOUN"

\* token.is_stop: the flag of the token's entry in nlp.vocab
is_stop(t, stopset) == Len(t) = 1 /\ t[1] \in stopset

PRON == <<"-PRON-">>

\* token.lemma_: the lemmatizer works on the lowercased text.
lemma_(t) ==
  CASE t = <<"computer", "s">> -> <<"computer">>
    [] t = <<"it">> -> PRON
    [] OTHER -> lower(t)

\* token.text.isnumeric()
isnumeric(t) == t # <<>> /\ \A k \in 1..Len(t) : t[k] \in {"5", "0101"}

\* nlp(text)
nlp(s, stopset) ==
  LET toks == Tokenize(s)
  IN [k \in 1..Len(toks) |->
        [text |-> toks[k], pos_ |-> pos_(toks[k]),
         is_stop |-> is_stop(toks[k], stopset), lemma_ |-> lemma_(toks[k]),
         isnumeric |-> isnumeric(toks[k])]]

----------------------------------------------------------------------------
\* w2n.word_to_num

RECURSIVE DigitsValue(_)
DigitsValue(t) ==
  IF t = <<>> THEN 0
  ELSE LET a == t[Len(t)]
           rest == DigitsValue(SubSeq(t, 1, Len(t) - 1))
       IN IF a = "0101" THEN rest * 10000 + 101 ELSE rest * 10 + 5

W2NNoValidMsg == <<"No valid number words found! Please enter a valid number word (eg. two million twenty three thousand and forty nine)">>

Returned(v) == [ok |-> TRUE, v |-> v]
Raised(type, msg) == [ok |-> FALSE, exc |-> [type |-> type, msg |-> msg]]

word_to_num(t) ==
  CASE isnumeric(t) -> Returned(DigitsValue(t))
    [] t = <<"five">> -> Returned(5)
    [] t = <<"one">> -> Returned(1)
    [] OTHER -> Raised("ValueError", W2NNoValidMsg)

----------------------------------------------------------------------------
\* text_preprocessing: the body of the loop over the tokens

\* The removal tests without the test of remove_num.
Flag_NoRemoveNum(token, o) ==
  LET flag1 == ~(o.stop_words /\ token.is_stop /\ token.pos_ # "NUM")
      flag2 == flag1 /\ ~(o.punctuations /\ token.pos_ = "PUNCT")
  IN flag2 /\ ~(o.special_chars /\ token.pos_ = "SYM")

\* Lines 89-102: flag after the four removal tests, each made in turn.
Flag(token, o) ==
  LET flag0 == TRUE
      flag1 == IF o.stop_words /\ token.is_stop /\ token.pos_ # "NUM"
               THEN FALSE ELSE flag0
      flag2 == IF o.punctuations /\ token.pos_ = "PUNCT" /\ flag1
               THEN FALSE ELSE flag1
      flag3 == IF o.special_chars /\ token.pos_ = "SYM" /\ flag2
               THEN FALSE ELSE flag2
      flag4 == IF o.remove_num /\ (token.pos_ = "NUM" \/ token.isnumeric) /\ flag3
               THEN FALSE ELSE flag3
  IN flag4

\* Lines 90 and 103-108: edit, or the exception word_to_num raises.
Edit(token, o, flag) ==
  IF o.convert_num /\ token.pos_ = "NUM" /\ flag
  THEN LET n == word_to_num(token.text)
       IN IF n.ok THEN [edit |-> IntVal(n.v), raised |-> NoValue]
                  ELSE [edit |-> NoValue, raised |-> n.exc]
  ELSE IF o.lemmatization /\ token.lemma_ # PRON /\ flag
       THEN [edit |-> StrVal(token.lemma_), raised |-> NoValue]
       ELSE [edit |-> StrVal(token.text), raised |-> NoValue]

\* The conversion made without looking at flag.
TokenStep_ConvertRemoved(token, o) ==
  [flag |-> Flag(token, o),
   edit |-> Edit(token, o, TRUE).edit,
   raised |-> Edit(token, o, TRUE).raised]

\* Lines 89-108 for one token: flag, edit, and the exception if one is raised.
TokenStep(token, o) ==
  [flag |-> Flag(token, o),
   edit |-> Edit(token, o, Flag(token, o)).edit,
   raised |-> Edit(token, o, Flag(token, o)).raised]

\* The edit put at the front of the list.
Appended_AtFront(list, step) ==
  IF step.edit # StrVal(<<>>) /\ step.flag THEN <<step.edit>> \o list ELSE list

\* Lines 110-111
Appended(list, step) ==
  IF step.edit # StrVal(<<>>) /\ step.flag THEN Append(list, step.edit) ELSE list

\* Line 113: ' '.join(clean_text) raises TypeError at the first item that is
\* not a str.
JoinTypeErrorMsg(k) == <<"sequence item ", ToString(k - 1), ": expected str instance, int found">>

join(list) ==
  LET bad == {k \in 1..Len(list) : list[k].k # "str"}
  IN IF bad = {}
     THEN Returned(JoinWith([k \in 1..Len(list) |-> list[k].v], <<" ">>))
     ELSE Raised("TypeError",
                 JoinTypeErrorMsg(CHOOSE k \in bad : \A j \in bad : k <= j))

----------------------------------------------------------------------------
\* Options of text_preprocessing (lines 67-71)

CleaningOptions == {"remove_html", "extra_whitespace", "accented_chars",
                    "contractions", "lowercase"}
FilterOptions == {"stop_words", "punctuations", "special_chars", "remove_num",
                  "convert_num", "lemmatization"}
OptionNames == CleaningOptions \cup FilterOptions

\* The keyword defaults
Defaults == [f \in OptionNames |-> TRUE]

\* Every setting of the options in vary, the others at their defaults.
Settings(vary) ==
  {[f \in OptionNames |-> IF f \in vary THEN g[f] ELSE TRUE] :
     g \in [vary -> BOOLEAN]}

----------------------------------------------------------------------------
\* The search string looked for as it is, without the spaces around it.
RowMatches_Unpadded(search, row) == Contains(search, row)

\* The search filter of display_table (line 676):
\* data['Text_Proc1'].str.contains(' '+search+' '); the pattern is read as a
\* regular expression, which for word tokens is the text itself.
RowMatches(search, row) == Contains(<<" ">> \o search \o <<" ">>, row)

\* Case folding moved before contraction expansion.
After_LowercaseEarly(p) ==
  CASE p = "remove_html" -> "extra_whitespace"
    [] p = "extra_whitespace" -> "accented_chars"
    [] p = "accented_chars" -> "lowercase"
    [] p = "lowercase" -> "contractions"
    [] p = "contractions" -> "nlp"

\* Control flow of lines 73-84: the statement after each cleaning stage.
After(p) ==
  CASE p = "remove_html" -> "extra_whitespace"
    [] p = "extra_whitespace" -> "accented_chars"
    [] p = "accented_chars" -> "contractions"
    [] p = "contractions" -> "lowercase"
    [] p = "lowercase" -> "nlp"

----------------------------------------------------------------------------
\* The callbacks of the layout

BoolVal(b) == [k |-> "bool", v |-> b]

\* bool(x) for None, a bool or an int
Truthy(x) ==
  CASE x.k = "none" -> FALSE
    [] x.k = "bool" -> x.v
    [] x.k = "int" -> x.v # 0

\* The test made as "n is not None": a click count of 0 toggles too.
toggle_collapse_ZeroToggles(n, open) ==
  IF n # NoValue THEN BoolVal(~Truthy(open)) ELSE open

\* Lines 744-747
toggle_collapse(n, open) ==
  IF Truthy(n) THEN BoolVal(~Truthy(open)) ELSE open

\* The links without the special case of the homepage.
toggle_active_links_NoHome(p) ==
  [j \in 1..3 |-> p = "/page-" \o ToString(j)]

\* Lines 253-257
toggle_active_links(p) ==
  IF p = "/" THEN <<TRUE, FALSE, FALSE>>
  ELSE [j \in 1..3 |-> p = "/page-" \o ToString(j)]

\* Lines 265-662: the page returned, by its name in the sidebar.
render_page_content(p) ==
  IF p \in {"/", "/page-1"} THEN "About"
  ELSE IF p = "/page-2" THEN "Data"
  ELSE IF p \in {"/page-3"} THEN "Search"
  ELSE "404"

----------------------------------------------------------------------------
\* State after spacy.load (line 34): nothing else of the module has run.
Init ==
  /\ pc = "import"
  /\ stop = DefaultStopWords
  /\ data = {}
  /\ caller = "none"
  /\ opts = Defaults
  /\ raw = <<>>
  /\ text = <<>>
  /\ stages = <<>>
  /\ doc = <<>>
  /\ i = 0
  /\ clean_text = <<>>
  /\ result = NoValue
  /\ prev = NoValue
  /\ dff = {}
  /\ pathname = None
  /\ pending = {}
  /\ active = <<FALSE, FALSE, FALSE>>
  /\ page_content = None
  /\ is_open = NoValue
  /\ toggles = 0

\* Lines 37-39: for w in deselect_stop_words: nlp.vocab[w].is_stop = False
DeselectStopWords ==
  /\ pc = "import"
  /\ stop' = stop \ {deselect_stop_words[k] : k \in 1..Len(deselect_stop_words)}
  /\ pc' = "read_data"
  /\ UNCHANGED <<data, caller, opts, raw, text, stages, doc, i, clean_text,
                 result, prev, dff, uivars>>

\* Line 116: data = pd.read_pickle(...); a row is its Text_Proc1.
ReadData(tables) ==
  /\ pc = "read_data"
  /\ data' \in tables
  /\ pc' = "idle"
  /\ UNCHANGED <<stop, caller, opts, raw, text, stages, doc, i, clean_text,
                 result, prev, dff, uivars>>

\* Entry of text_preprocessing(t, **o) on behalf of who.
Enter(who, t, o) ==
  /\ caller' = who
  /\ opts' = o
  /\ raw' = t
  /\ text' = t
  /\ stages' = <<>>
  /\ doc' = <<>>
  /\ i' = 0
  /\ clean_text' = <<>>
  /\ result' = NoValue
  /\ pc' = "remove_html"

\* A caller runs text_preprocessing on a text with a setting of the options.
Call(inputs, settings) ==
  /\ pc = "idle"
  /\ \E t \in inputs, o \in settings : Enter("direct", t, o)
  /\ UNCHANGED <<stop, data, prev, dff, uivars>>

\* One cleaning stage (lines 73-82): if <option> == True: text = f(text)
Stage(name, cleaned) ==
  /\ pc = name
  /\ text' = IF opts[name] THEN cleaned ELSE text
  /\ stages' = IF opts[name] THEN Append(stages, name) ELSE stages
  /\ pc' = After(name)
  /\ UNCHANGED <<stop, data, caller, opts, raw, doc, i, clean_text, result,
                 prev, dff, uivars>>

StripHtml == Stage("remove_html", strip_html_tags(text))
RemoveWhitespace == Stage("extra_whitespace", remove_whitespace(text))
RemoveAccents == Stage("accented_chars", remove_accented_chars(text))
ExpandContractions == Stage("contractions", expand_contractions(text))
Lowercase == Stage("lowercase", lower(text))

\* Lines 84-86: doc = nlp(text); clean_text = []
Annotate ==
  /\ pc = "nlp"
  /\ doc' = nlp(text, stop)
  /\ clean_text' = <<>>
  /\ i' = 1
  /\ pc' = "loop"
  /\ UNCHANGED <<stop, data, caller, opts, raw, text, stages, result, prev, dff, uivars>>

\* Lines 88-111 for the next token; an exception of word_to_num leaves the
\* function.
LoopBody ==
  /\ pc = "loop"
  /\ i <= Len(doc)
  /\ LET step == TokenStep(doc[i], opts)
     IN IF step.raised # NoValue
        THEN /\ result' = [ok |-> FALSE, exc |-> step.raised]
             /\ pc' = "return"
             /\ UNCHANGED <<i, clean_text>>
        ELSE /\ clean_text' = Appended(clean_text, step)
             /\ i' = i + 1
             /\ UNCHANGED <<pc, result>>
  /\ UNCHANGED <<stop, data, caller, opts, raw, text, stages, doc, prev, dff, uivars>>

\* Line 113: return ' '.join(clean_text)
Join ==
  /\ pc = "loop"
  /\ i > Len(doc)
  /\ result' = join(clean_text)
  /\ pc' = "return"
  /\ UNCHANGED <<stop, data, caller, opts, raw, text, stages, doc, i,
                 clean_text, prev, dff, uivars>>

\* The direct caller has its result, or the exception.
Finish ==
  /\ pc = "return"
  /\ caller \in {"direct", "again", "flipped"}
  /\ pc' = "done"
  /\ UNCHANGED <<stop, data, caller, opts, raw, text, stages, doc, i,
                 clean_text, result, prev, dff, uivars>>

\* The caller normalises the text it got back, with the same options.
CallAgain ==
  /\ pc = "return"
  /\ caller = "direct"
  /\ result.ok
  /\ prev' = result
  /\ Enter("again", result.v, opts)
  /\ UNCHANGED <<stop, data, dff, uivars>>

\* The caller runs the same text again with convert_num the other way and
\* every other option as it was.
CallFlipped ==
  /\ pc = "return"
  /\ caller = "direct"
  /\ prev' = result
  /\ Enter("flipped", raw, [opts EXCEPT !["convert_num"] = ~opts["convert_num"]])
  /\ UNCHANGED <<stop, data, dff, uivars>>

\* Lines 672-673: display_table(n_clicks, search_str) calls
\* text_preprocessing(search_str), every option at its default.
DisplayTable(queries) ==
  /\ pc = "idle"
  /\ \E q \in queries : Enter("display_table", q, Defaults)
  /\ UNCHANGED <<stop, data, prev, dff, uivars>>

\* Line 676: dff = the rows whose Text_Proc1 contains ' '+search+' '; an
\* exception of text_preprocessing leaves the callback.
FilterRows ==
  /\ pc = "return"
  /\ caller = "display_table"
  /\ dff' = IF result.ok THEN {row \in data : RowMatches(result.v, row)} ELSE dff
  /\ pc' = "done"
  /\ UNCHANGED <<stop, data, caller, opts, raw, text, stages, doc, i,
                 clean_text, result, prev, uivars>>

\* The steps of text_preprocessing
Pipeline ==
  \/ StripHtml
  \/ RemoveWhitespace
  \/ RemoveAccents
  \/ ExpandContractions
  \/ Lowercase
  \/ Annotate
  \/ LoopBody
  \/ Join

----------------------------------------------------------------------------
\* The filter and rewrite rules, run on texts of every kind of token

FilterAtoms == {" ", "one", "five", "5", "3.5", "0101", "it", "computer", "s",
                "!", "$"}

\* "Don't use 5 computers!"
ExampleText == <<"Don't", " ", "use", " ", "5", " ", "computer", "s", "!">>

FilterInputs == Texts(FilterAtoms, MaxLen) \cup {ExampleText}

\* Every setting of the six filter options, with whitespace normalisation on
\* and off (off, runs of whitespace reach the annotator and become tokens).
CallFilter == Call(FilterInputs, Settings(FilterOptions \cup {"extra_whitespace"}))

ReadNoData == ReadData({{}})

NextFilter ==
  \/ DeselectStopWords
  \/ ReadNoData
  \/ CallFilter
  \/ Pipeline
  \/ Finish

SpecFilter == Init /\ [][NextFilter]_vars

\* The ordered rule list 1-7 of the token filter, first match wins.
RuleOutcome(token, o) ==
  IF o.stop_words /\ token.is_stop /\ token.pos_ # "NUM" THEN [kind |-> "dropped"]
  ELSE IF o.punctuations /\ token.pos_ = "PUNCT" THEN [kind |-> "dropped"]
  ELSE IF o.special_chars /\ token.pos_ = "SYM" THEN [kind |-> "dropped"]
  ELSE IF o.remove_num /\ (token.pos_ = "NUM" \/ token.isnumeric)
       THEN [kind |-> "dropped"]
  ELSE IF o.convert_num /\ token.pos_ = "NUM"
       THEN (IF word_to_num(token.text).ok
             THEN [kind |-> "number", v |-> IntVal(word_to_num(token.text).v)]
             ELSE [kind |-> "error"])
  ELSE IF o.lemmatization /\ token.lemma_ # PRON
       THEN (IF token.lemma_ = <<>> THEN [kind |-> "dropped"]
             ELSE [kind |-> "lemma", v |-> StrVal(token.lemma_)])
  ELSE IF token.text = <<>> THEN [kind |-> "dropped"]
  ELSE [kind |-> "kept", v |-> StrVal(token.text)]

\* C1: every step of the loop over the tokens does to clean_text what the
\* ordered rule list 1-7 says for that token under the options: nothing for
\* a dropped token, the numeric value, the lemma or the surface text appended
\* for the others, and the invocation left by the exception where the numeral
\* does not parse.
C1_RuleList ==
  [][(pc = "loop" /\ i <= Len(doc)) =>
       LET r == RuleOutcome(doc[i], opts)
       IN CASE r.kind = "dropped" -> clean_text' = clean_text /\ pc' = "loop" /\ i' = i + 1
            [] r.kind = "error" -> clean_text' = clean_text /\ pc' = "return" /\ ~result'.ok
            [] OTHER -> clean_text' = Append(clean_text, r.v) /\ pc' = "loop" /\ i' = i + 1]_vars

\* A stop word of category NUM passed rule 1 with stop-word removal on and
\* was converted by rule 5; the punctuation after it, its removal off, was
\* kept with its surface text by rule 7.
C1_Witness ==
  /\ pc = "loop"
  /\ i = 3
  /\ opts.stop_words /\ ~opts.punctuations /\ opts.lemmatization
  /\ opts.convert_num /\ ~opts.remove_num
  /\ doc[1].is_stop /\ doc[1].pos_ = "NUM"
  /\ doc[2].pos_ = "PUNCT"
  /\ clean_text = <<IntVal(1), StrVal(<<"!">>)>>

\* str(n) for n >= 0
RECURSIVE DecimalText(_)
DecimalText(n) ==
  IF n < 10 THEN <<ToString(n)>> ELSE Append(DecimalText(n \div 10), ToString(n % 10))

\* The tokens of d that the rule list lets through, in the order of d, each
\* as the text the rule list gives it.
RECURSIVE SurvivingTexts(_, _)
SurvivingTexts(d, o) ==
  IF d = <<>> THEN <<>>
  ELSE LET r == RuleOutcome(Head(d), o)
       IN (CASE r.kind = "dropped" -> <<>>
             [] r.kind = "number" -> <<DecimalText(r.v.v)>>
             [] OTHER -> <<r.v.v>>) \o SurvivingTexts(Tail(d), o)

Rule5Parses(d, o, k) ==
  /\ k \in 1..Len(d)
  /\ RuleOutcome(d[k], o).kind = "number"

NoRuleFails(d, o) == \A k \in 1..Len(d) : RuleOutcome(d[k], o).kind # "error"

\* C2: with convert_num on and remove_num off, an invocation in which a
\* NUMBER token reaches rule 5 with a numeral that parses (and no other
\* numeral fails to) returns the surviving tokens joined by single spaces,
\* the numeral as the decimal text of its value.
C2_ConvertedNumeralReturned ==
  (/\ pc = "done"
   /\ opts.convert_num /\ ~opts.remove_num
   /\ NoRuleFails(doc, opts)
   /\ \E k \in 1..Len(doc) : Rule5Parses(doc, opts, k))
  => /\ result.ok
     /\ result.v = JoinWith(SurvivingTexts(doc, opts), <<" ">>)

ExampleDoc ==
  /\ Len(doc) = 6
  /\ [k \in 1..6 |-> doc[k].text]
       = <<<<"do">>, <<"not">>, <<"use">>, <<"5">>, <<"computer", "s">>, <<"!">>>>
  /\ doc[1].is_stop /\ ~doc[2].is_stop /\ ~doc[3].is_stop
  /\ doc[4].pos_ = "NUM"
  /\ doc[5].lemma_ = <<"computer">>
  /\ doc[6].pos_ = "PUNCT"

\* C3 as the claim has it: with every option at its default,
\* "Don't use 5 computers!" comes back as "not use 5 computer".
C3_ExampleKeepsNumeral ==
  (pc = "done" /\ raw = ExampleText /\ opts = Defaults /\ ExampleDoc)
  => result = Returned(<<"not", " ", "use", " ", "5", " ", "computer">>)

\* C3, amended: with every option at its default, "Don't use 5 computers!"
\* comes back as "not use computer": remove_num is on by default and rule 4
\* drops the numeral before rule 5 is looked at.
C3_ExampleDropsNumeral ==
  (pc = "done" /\ raw = ExampleText /\ opts = Defaults /\ ExampleDoc)
  => result = Returned(<<"not", " ", "use", " ", "computer">>)

\* The example has run to its end under the defaults, annotated as the
\* claim says.
C3_Witness ==
  /\ pc = "done" /\ raw = ExampleText /\ opts = Defaults /\ ExampleDoc
  /\ text = <<"do", " ", "not", " ", "use", " ", "5", " ", "computer", "s", "!">>
  /\ result.ok

\* C4: when rule 5 meets a NUMBER token that does not parse, the invocation
\* ends in an error and the error names that token.
C4_ErrorNamesToken ==
  (/\ pc = "done"
   /\ i \in 1..Len(doc)
   /\ RuleOutcome(doc[i], opts).kind = "error")
  => /\ ~result.ok
     /\ Contains(doc[i].text, result.exc.msg)

\* C8: the list built by the loop is, in order, what the rule list makes of
\* the tokens it lets through among those looked at so far: one element for
\* each such token, none twice, none out of place; the string returned is
\* those elements joined.
C8_OrderPreserved ==
  pc \in {"loop", "return", "done"} =>
    LET n == IF i > Len(doc) THEN Len(doc) ELSE i - 1
        S == {k \in 1..n : RuleOutcome(doc[k], opts).kind \notin {"dropped", "error"}}
    IN /\ Len(clean_text) = Cardinality(S)
       /\ \A k \in S :
            clean_text[Cardinality({j \in S : j <= k})] = RuleOutcome(doc[k], opts).v
       /\ (pc # "loop" /\ result.ok) =>
            result.v = JoinWith(SurvivingTexts(doc, opts), <<" ">>)

\* Two tokens, the first dropped by a rule and the second let through, and
\* two tokens both let through with different texts.
C8_Witness ==
  /\ pc = "done" /\ result.ok
  /\ Len(doc) = 2
  /\ ~opts.punctuations
  /\ clean_text = <<StrVal(<<"computer">>), StrVal(<<"!">>)>>
  /\ result.v = <<"computer", " ", "!">>

----------------------------------------------------------------------------
\* The cleaning stages, run on texts with markup, whitespace, accents,
\* contractions and capitals

CleanAtoms == {" ", "TAB", "<b>", "Caf^e", "Don't"}

CallClean == Call(Texts(CleanAtoms, MaxClean), Settings(CleaningOptions))

NextClean ==
  \/ DeselectStopWords
  \/ ReadNoData
  \/ CallClean
  \/ Pipeline
  \/ Finish

SpecClean == Init /\ [][NextClean]_vars

\* The five cleaning stages in the order section 4.1 gives them.
StageOrder == <<"remove_html", "extra_whitespace", "accented_chars",
                "contractions", "lowercase">>

StageOf(name, t) ==
  CASE name = "remove_html" -> strip_html_tags(t)
    [] name = "extra_whitespace" -> remove_whitespace(t)
    [] name = "accented_chars" -> remove_accented_chars(t)
    [] name = "contractions" -> expand_contractions(t)
    [] name = "lowercase" -> lower(t)

\* t after the first n stages of StageOrder, the disabled ones skipped.
RECURSIVE CleanedUpTo(_, _, _)
CleanedUpTo(t, o, n) ==
  IF n = 0 THEN t
  ELSE LET before == CleanedUpTo(t, o, n - 1)
       IN IF o[StageOrder[n]] THEN StageOf(StageOrder[n], before) ELSE before

\* How many stages of StageOrder lie before the position p.
StagesBefore(p) ==
  IF \E n \in 1..Len(StageOrder) : StageOrder[n] = p
  THEN (CHOOSE n \in 1..Len(StageOrder) : StageOrder[n] = p) - 1
  ELSE Len(StageOrder)

\* C10: at every point of an invocation the stages run so far are exactly
\* the enabled ones among those before that point, each once and in the
\* order markup, whitespace, accents, contractions, case; the text is the
\* input taken through those and only those; and the annotator runs after
\* all five, on the text they leave.
C10_StagesInOrder ==
  caller # "none" =>
    LET n == StagesBefore(pc)
        Enabled(name) == opts[name]
    IN /\ stages = SelectSeq(SubSeq(StageOrder, 1, n), Enabled)
       /\ text = CleanedUpTo(raw, opts, n)
       /\ pc \in {"loop", "return", "done"} => doc = nlp(CleanedUpTo(raw, opts, 5), stop)
       /\ pc \notin {"loop", "return", "done"} => doc = <<>> /\ i = 0

\* Accent folding is off and the other four stages have run: the tag and
\* the tab are gone, the contraction is expanded and lowercased around the
\* accent that stayed.
C10_Witness ==
  /\ pc = "loop"
  /\ ~opts.accented_chars
  /\ stages = <<"remove_html", "extra_whitespace", "contractions", "lowercase">>
  /\ raw = <<"Caf^e", "<b>", "Don't">>
  /\ text = <<"caf^e", " ", "do", " ", "not">>

----------------------------------------------------------------------------
\* Empty and whitespace-only input, under every setting of the options

CallEmpty == Call(Texts(Whitespace, MaxWs), Settings(OptionNames))

NextEmpty ==
  \/ DeselectStopWords
  \/ ReadNoData
  \/ CallEmpty
  \/ Pipeline
  \/ Finish

SpecEmpty == Init /\ [][NextEmpty]_vars

\* C7: an input that is empty or all whitespace comes back as the empty
\* string, with no error, whatever the options.
C7_WhitespaceGivesEmpty ==
  (pc = "done" /\ \A k \in 1..Len(raw) : IsSpace(raw[k]))
  => result = Returned(<<>>)

----------------------------------------------------------------------------
\* Normalising twice, lemmatization and numeral conversion off

IdemAtoms == {" ", "computer", "it"}

IdemSettings ==
  {[o EXCEPT !["lemmatization"] = FALSE, !["convert_num"] = FALSE] :
     o \in Settings(OptionNames \ {"lemmatization", "convert_num"})}

CallIdem == Call(Texts(IdemAtoms, MaxLen), IdemSettings)

NextIdem ==
  \/ DeselectStopWords
  \/ ReadNoData
  \/ CallIdem
  \/ Pipeline
  \/ CallAgain
  \/ Finish

SpecIdem == Init /\ [][NextIdem]_vars

\* C9: with lemmatization and convert_num off, normalising the normalised
\* text once more, under the same options, gives it back unchanged.
C9_Idempotent ==
  (pc = "done" /\ caller = "again") => result = prev

----------------------------------------------------------------------------
\* The search: display_table over a table of normalised rows

RowTokens == {<<"computer">>, <<"computer", "s">>, <<"use">>}

\* A row's Text_Proc1: what the pipeline returned for the row's description,
\* tokens joined by single spaces.
RowTexts ==
  {JoinWith(ts, <<" ">>) : ts \in Texts(RowTokens, MaxRowTokens)}

RECURSIVE Tables(_)
Tables(n) ==
  IF n = 0 THEN {{}}
  ELSE Tables(n - 1) \cup {T \cup {r} : T \in Tables(n - 1), r \in RowTexts}

QueryAtoms == {" ", "computer", "s"}

ReadTable == ReadData(Tables(MaxRows))

Search == DisplayTable(Texts(QueryAtoms, MaxQuery))

NextSearch ==
  \/ DeselectStopWords
  \/ ReadTable
  \/ Search
  \/ Pipeline
  \/ FilterRows

SpecSearch == Init /\ [][NextSearch]_vars

\* The tokens of a normalised text
TokensOf(t) == Chunks(t, {" "}, <<>>)

\* C5: a row is returned whenever the tokens of the normalised query are a
\* run of whole tokens of the row, wherever the run lies in the row.
C5_RunOfTokensMatches ==
  (pc = "done" /\ caller = "display_table" /\ result.ok /\ result.v # <<>>)
  => \A row \in data :
       Contains(TokensOf(result.v), TokensOf(row)) => row \in dff

\* C6: a row is returned only if the tokens of the normalised query are a
\* run of whole tokens of the row; a row that has the query only inside a
\* longer token is not returned.
C6_OnlyWholeTokens ==
  (pc = "done" /\ caller = "display_table" /\ result.ok /\ result.v # <<>>)
  => \A row \in dff : Contains(TokensOf(result.v), TokensOf(row))

\* The query "computer" against a row that has "computers" between two
\* other tokens and no token "computer": the row is not returned.
C6_Witness ==
  /\ pc = "done" /\ caller = "display_table"
  /\ result = Returned(<<"computer">>)
  /\ data = {<<"use", " ", "computer", "s", " ", "use">>}
  /\ dff = {}

----------------------------------------------------------------------------
\* Capitals in the input, case folding on and off

CaseAtoms == {" ", "Use", "Not", "computer", "s"}

CallCase == Call(Texts(CaseAtoms, MaxLen), Settings({"lowercase"}))

NextCase ==
  \/ DeselectStopWords
  \/ ReadNoData
  \/ CallCase
  \/ Pipeline
  \/ Finish

SpecCase == Init /\ [][NextCase]_vars

\* C11: with lowercase off and the other options at their defaults, the
\* tokens dropped are the ones dropped with lowercase on, and a token let
\* through that has a capital in the input still has it in the output.
C11_LowercaseOffKeepsCase ==
  (pc = "done" /\ opts = [Defaults EXCEPT !["lowercase"] = FALSE]) =>
    LET low == nlp(lower(text), stop)
        Dropped(d, o, k) == RuleOutcome(d[k], o).kind = "dropped"
        kept == {k \in 1..Len(doc) : ~Dropped(doc, opts, k)}
    IN /\ result.ok
       /\ Len(low) = Len(doc)
       /\ \A k \in 1..Len(doc) : Dropped(doc, opts, k) <=> Dropped(low, Defaults, k)
       /\ Len(clean_text) = Cardinality(kept)
       /\ \A k \in kept :
            doc[k].text # lower(doc[k].text) =>
              LET e == clean_text[Cardinality({j \in kept : j <= k})].v
              IN e # lower(e)

----------------------------------------------------------------------------
\* The app: the module is imported, then the browser sends callbacks

Pathnames == {None, "", "/", "/page-1", "/page-2", "/page-3", "/page-4",
              "/page-1/", "/Page-2"}

\* n_clicks of the sidebar toggle: None before the first click
ClickCounts == {NoValue} \cup {IntVal(c) : c \in 0..MaxClicks}

\* dcc.Location reports a pathname; both callbacks on it are triggered.
Navigate ==
  /\ pc = "idle"
  /\ \E p \in Pathnames : pathname' = p
  /\ pending' = {"toggle_active_links", "render_page_content"}
  /\ UNCHANGED <<pc, stop, data, caller, opts, raw, text, stages, doc, i,
                 clean_text, result, prev, dff, active, page_content, is_open,
                 toggles>>

\* Lines 249-257
ToggleActiveLinks ==
  /\ pc = "idle"
  /\ "toggle_active_links" \in pending
  /\ active' = toggle_active_links(pathname)
  /\ pending' = pending \ {"toggle_active_links"}
  /\ UNCHANGED <<pc, stop, data, caller, opts, raw, text, stages, doc, i,
                 clean_text, result, prev, dff, pathname, page_content, is_open,
                 toggles>>

\* Lines 264-662
RenderPageContent ==
  /\ pc = "idle"
  /\ "render_page_content" \in pending
  /\ page_content' = render_page_content(pathname)
  /\ pending' = pending \ {"render_page_content"}
  /\ UNCHANGED <<pc, stop, data, caller, opts, raw, text, stages, doc, i,
                 clean_text, result, prev, dff, pathname, active, is_open,
                 toggles>>

\* Lines 739-747: the callback writes what toggle_collapse returns to
\* is_open; toggles counts the callbacks that came with a positive n_clicks.
ToggleCollapse ==
  /\ pc = "idle"
  /\ \E n \in ClickCounts :
       /\ (n.k = "int" /\ n.v > 0) => toggles < MaxToggles
       /\ is_open' = toggle_collapse(n, is_open)
       /\ toggles' = IF n.k = "int" /\ n.v > 0 THEN toggles + 1 ELSE toggles
  /\ UNCHANGED <<pc, stop, data, caller, opts, raw, text, stages, doc, i,
                 clean_text, result, prev, dff, pathname, pending, active,
                 page_content>>

AppTables == {{}, {<<"computer">>}, {<<"use", " ", "computer", " ", "use">>}}

ReadAppTable == ReadData(AppTables)

\* The search button is on the Search page (lines 354-366).
AppSearch ==
  /\ page_content = "Search"
  /\ DisplayTable(Texts(QueryAtoms, 1))

\* Lines 678-727: display_table returns the table of dff; the server waits
\* for the next callback.
Respond ==
  /\ pc = "done"
  /\ caller = "display_table"
  /\ pc' = "idle"
  /\ UNCHANGED <<stop, data, caller, opts, raw, text, stages, doc, i,
                 clean_text, result, prev, dff, uivars>>

Next ==
  \/ DeselectStopWords
  \/ ReadAppTable
  \/ Navigate
  \/ ToggleActiveLinks
  \/ RenderPageContent
  \/ ToggleCollapse
  \/ AppSearch
  \/ Pipeline
  \/ FilterRows
  \/ Respond

Spec == Init /\ [][Next]_vars

\* C12: the overrides are in place in every state after the import, no
\* invocation of text_preprocessing starts before they are, and no step
\* after the import changes a stop-word flag.
C12_OverridesSetOnce ==
  /\ [](pc # "import" => stop \cap {"no", "not", "least"} = {})
  /\ [](caller # "none" => pc # "import")
  /\ [][pc # "import" => stop' = stop]_vars

\* A search is in the loop over its tokens, after other callbacks have run,
\* and the three words are not flagged.
C12_Witness ==
  /\ pc = "loop" /\ caller = "display_table"
  /\ toggles > 0
  /\ stop \cap {"no", "not", "least"} = {}
  /\ stop # {}

----------------------------------------------------------------------------
\* Numerals with convert_num on and off, and numerals typed in the search box

SearchNumerals == DisplayTable(FilterInputs)

NextNum ==
  \/ DeselectStopWords
  \/ ReadNoData
  \/ CallFilter
  \/ CallFlipped
  \/ SearchNumerals
  \/ Pipeline
  \/ Finish
  \/ FilterRows

SpecNum == Init /\ [][NextNum]_vars

\* C13: with remove_num on, the run with convert_num flipped ends as the
\* first run did, whatever the text and the other options; and no call made
\* by display_table raises.
C13_ConvertNumIrrelevant ==
  /\ (pc = "done" /\ caller = "flipped" /\ opts["remove_num"]) => result = prev
  /\ (caller = "display_table" /\ pc \in {"return", "done"}) => result.ok

\* "five" with remove_num on: run with convert_num on, then off.
C13_Witness ==
  /\ pc = "done" /\ caller = "flipped"
  /\ opts["remove_num"] /\ ~opts["convert_num"]
  /\ \E k \in 1..Len(doc) : doc[k].text = <<"five">> /\ doc[k].pos_ = "NUM"
  /\ result = prev

----------------------------------------------------------------------------
\* Queries of which nothing is left, against rows with and without runs of
\* spaces

SpacedRows == {<<"computer">>, <<"computer", " ", "s">>,
               <<"computer", " ", " ", "s">>, <<" ", "computer", " ">>,
               <<" ", " ">>}

ReadSpacedTable == ReadData(SUBSET SpacedRows)

DroppedAtoms == {" ", "it", "!", "computer"}

SearchDropped == DisplayTable(Texts(DroppedAtoms, MaxQuery))

NextEmptyQuery ==
  \/ DeselectStopWords
  \/ ReadSpacedTable
  \/ SearchDropped
  \/ Pipeline
  \/ FilterRows

SpecEmptyQuery == Init /\ [][NextEmptyQuery]_vars

\* No two spaces next to each other
SingleSpaced(row) ==
  \A k \in 1..(Len(row) - 1) : ~(row[k] = " " /\ row[k + 1] = " ")

\* C14: when text_preprocessing returns the empty string for the query, no
\* row without two consecutive spaces is returned, so the rows returned are
\* not the whole table when the table has such a row.
C14_EmptyQueryMatchesNoRow ==
  (pc = "done" /\ caller = "display_table" /\ result = Returned(<<>>))
  => /\ \A row \in dff : ~SingleSpaced(row)
     /\ (\E row \in data : SingleSpaced(row)) => dff # data

\* "it!" against a table of a single-spaced row and a row with two spaces:
\* both tokens are dropped and only the second row is returned.
C14_Witness ==
  /\ pc = "done" /\ caller = "display_table"
  /\ raw = <<"it", "!">>
  /\ result = Returned(<<>>)
  /\ data = {<<"computer", " ", "s">>, <<"computer", " ", " ", "s">>}
  /\ dff = {<<"computer", " ", " ", "s">>}

----------------------------------------------------------------------------
\* The sidebar links and the page, once both callbacks on the pathname have
\* run

ActiveLinks == {j \in 1..3 : active[j]}

\* C15: at most one link is active; one is active exactly when the page is
\* not the 404 page; "/" and "/page-1" give link 1 and the About page,
\* "/page-2" link 2 and the Data page, "/page-3" link 3 and the Search page,
\* any other pathname no link and the 404 page.
C15_LinksFollowPage ==
  (pending = {} /\ page_content # None) =>
    /\ Cardinality(ActiveLinks) <= 1
    /\ (ActiveLinks # {}) <=> (page_content # "404")
    /\ pathname \in {"/", "/page-1"} =>
         (ActiveLinks = {1} /\ page_content = "About")
    /\ pathname = "/page-2" => (ActiveLinks = {2} /\ page_content = "Data")
    /\ pathname = "/page-3" => (ActiveLinks = {3} /\ page_content = "Search")
    /\ pathname \notin {"/", "/page-1", "/page-2", "/page-3"} =>
         (ActiveLinks = {} /\ page_content = "404")

\* The homepage after a page that was not found: link 1 and the About page.
C15_Witness ==
  /\ pending = {}
  /\ pathname = "/"
  /\ active = <<TRUE, FALSE, FALSE>>
  /\ page_content = "About"
  /\ result = Returned(<<"computer">>)

----------------------------------------------------------------------------
\* The sidebar toggle. The layout gives dbc.Collapse no is_open (lines
\* 214-229), so the first callback gets is_open = None.

\* C16 as stated: after an even number of callbacks with a positive click
\* count is_open is the initial state, after an odd number its negation.
C16_EvenRestoresInitial ==
  /\ toggles % 2 = 0 => is_open = NoValue
  /\ toggles % 2 = 1 => is_open = BoolVal(~Truthy(NoValue))

\* C16: a callback whose click count is None or 0 leaves is_open as it is,
\* a callback with a positive click count sets it to the negation of its
\* truth value; so is_open is None until the first such callback, a bool
\* afterwards, and true exactly after an odd number of them.
C16_TogglesByParity ==
  /\ [][toggles' = toggles => is_open' = is_open]_vars
  /\ [][toggles' # toggles => is_open' = BoolVal(~Truthy(is_open))]_vars
  /\ [](toggles = 0 => is_open = NoValue)
  /\ [](toggles > 0 => is_open = BoolVal(toggles % 2 = 1))

\* Two callbacks with a positive click count: is_open is False, not None.
C16_Witness ==
  /\ toggles = 2
  /\ is_open = BoolVal(FALSE)

====
